---- MODULE Spec2Model ----
(***************************************************************************)
(* Model of config_tool.py: the Lark grammar of the configuration          *)
(* language, the ConfigTransformer callbacks (globals, values, the RPN     *)
(* stack machine, dict and list literals, the root rule) and assemble().   *)
(*                                                                         *)
(* Python strings (token texts, global names, string values) are tuples of *)
(* one-character strings, so that str(tok), s[1:-1], isdigit and int() are *)
(* computed and not assumed.  Python objects are records [t, v] whose tag  *)
(* t is the Python type; a raised exception is the record tagged "raise".  *)
(***************************************************************************)
EXTENDS Integers, Sequences, FiniteSets, TLC

VARIABLES
    text,        \* assemble: the source text, as its sequence of statements
    pc,          \* position of the run
    tree,        \* assemble: children of the parsed config node
    idx,         \* Transformer: number of children of config already transformed
    globals,     \* ConfigTransformer.globals (insertion-ordered dict)
    items,       \* Transformer: results of the children of config so far
    statements,  \* assemble: result of trans.transform(tree)
    outfile,     \* assemble: content of output_path
    exitcode,    \* assemble: process exit status
    tokens,      \* expr_const: the children of rpn_list
    stack,       \* expr_const: the operand stack
    ti,          \* expr_const: number of tokens consumed by the for loop
    rpn_result,  \* expr_const: the value returned or the exception raised
    caught,      \* assemble: the exception caught by the try statement
    lit,         \* parse tree of a dict or list literal
    lit_result   \* value of that literal

vars == <<text, pc, tree, idx, globals, items, statements, outfile, exitcode,
          caught, tokens, stack, ti, rpn_result, lit, lit_result>>

asmVars == <<text, tree, items, statements, outfile, exitcode, caught>>
rpnVars == <<tokens, stack, ti, rpn_result>>
litVars == <<lit, lit_result>>

-----------------------------------------------------------------------------
(* Bounds of the model *)

MaxStmts == 3      \* statements in a source text
MaxTokens == 3     \* tokens in an rpn_list
MaxDecls == 2      \* global declarations ahead of an RPN expression
MaxPairs == 3      \* pairs in a dict literal, values in a list literal

-----------------------------------------------------------------------------
(* Python objects *)

PyNone == [t |-> "none", v |-> <<>>]
PyInt(n) == [t |-> "int", v |-> n]
PyStr(s) == [t |-> "str", v |-> s]
PyList(xs) == [t |-> "list", v |-> xs]
PyDict(ps) == [t |-> "dict", v |-> ps]
PyTuple(xs) == [t |-> "tuple", v |-> xs]
Raise(exc, msg, arg) == [t |-> "raise", v |-> [exc |-> exc, msg |-> msg, arg |-> arg]]

IsRaise(r) == r.t = "raise"

(* dict: the pairs <<key, value>> in insertion order, keys unique *)
DictHas(d, k) == \E i \in 1..Len(d) : d[i][1] = k
DictIndex(d, k) == CHOOSE i \in 1..Len(d) : d[i][1] = k
DictGet(d, k) == d[DictIndex(d, k)][2]

(* d[k] = v where every assignment appends: not the behaviour of a dict *)
DictSetAppend(d, k, v) == Append(d, <<k, v>>)

(* d[k] = v: a present key keeps its position and takes the new value, an
   absent key is appended *)
DictSet(d, k, v) ==
    IF DictHas(d, k)
    THEN [d EXCEPT ![DictIndex(d, k)] = <<k, v>>]
    ELSE Append(d, <<k, v>>)

-----------------------------------------------------------------------------
(* Python str and int *)

DigitChars == <<"0", "1", "2", "3", "4", "5", "6", "7", "8", "9">>

IsDigitChar(c) == \E i \in 1..Len(DigitChars) : DigitChars[i] = c

DigitOf(c) == (CHOOSE i \in 1..Len(DigitChars) : DigitChars[i] = c) - 1

(* str.isdigit(): non-empty and every character a digit *)
isdigit(s) == Len(s) > 0 /\ \A i \in 1..Len(s) : IsDigitChar(s[i])

(* str.startswith("-") *)
startswith_minus(s) == Len(s) > 0 /\ s[1] = "-"

RECURSIVE DigitsValue(_)
DigitsValue(s) ==
    IF Len(s) = 0 THEN 0
    ELSE 10 * DigitsValue(SubSeq(s, 1, Len(s) - 1)) + DigitOf(s[Len(s)])

(* int(s) for a text matching NUMBER, /-?\d+/ *)
int(s) == IF startswith_minus(s) THEN 0 - DigitsValue(Tail(s)) ELSE DigitsValue(s)

RECURSIVE Repeat(_, _)
Repeat(xs, n) == IF n <= 0 THEN <<>> ELSE xs \o Repeat(xs, n - 1)

IsSeqType(x) == x.t = "str" \/ x.t = "list"

TypeError == Raise("TypeError", "unsupported operand type(s)", <<>>)
ZeroDivisionError == Raise("ZeroDivisionError", "integer division or modulo by zero", <<>>)

(* a + b *)
PyAdd(a, b) ==
    IF a.t = "int" /\ b.t = "int" THEN PyInt(a.v + b.v)
    ELSE IF a.t = b.t /\ IsSeqType(a) THEN [t |-> a.t, v |-> a.v \o b.v]
    ELSE TypeError

(* a - b *)
PySub(a, b) ==
    IF a.t = "int" /\ b.t = "int" THEN PyInt(a.v - b.v) ELSE TypeError

(* a * b *)
PyMul(a, b) ==
    IF a.t = "int" /\ b.t = "int" THEN PyInt(a.v * b.v)
    ELSE IF IsSeqType(a) /\ b.t = "int" THEN [t |-> a.t, v |-> Repeat(a.v, b.v)]
    ELSE IF a.t = "int" /\ IsSeqType(b) THEN [t |-> b.t, v |-> Repeat(b.v, a.v)]
    ELSE TypeError

(* a // b: the quotient rounded toward negative infinity *)
PyFloorDiv(a, b) ==
    IF a.t = "int" /\ b.t = "int"
    THEN IF b.v = 0 THEN ZeroDivisionError ELSE PyInt(a.v \div b.v)
    ELSE TypeError

(* a % b: for ints the remainder of //, with the sign of b; for a str a the
   printf-style formatting of a, whose texts here hold no conversion
   specifier: a list or dict b is taken as a mapping and a is returned, any
   other b is an argument left unconverted *)
PyMod(a, b) ==
    IF a.t = "int" /\ b.t = "int"
    THEN IF b.v = 0 THEN ZeroDivisionError
         ELSE PyInt(a.v - b.v * (a.v \div b.v))
    ELSE IF a.t = "str"
    THEN IF b.t = "list" \/ b.t = "dict" THEN a
         ELSE Raise("TypeError", "not all arguments converted during string formatting", <<>>)
    ELSE TypeError

-----------------------------------------------------------------------------
(* Parse tree: a Tree is tagged "Tree", with k the rule or alias and c the
   children; a Token is tagged "Token", with k the terminal and c the text *)

Tok(k, c) == [t |-> "Token", k |-> k, c |-> c]
Tree(k, c) == [t |-> "Tree", k |-> k, c |-> c]

IsToken(n) == n.t = "Token"

NumNode(txt) == Tree("num", <<Tok("NUMBER", txt)>>)
StringNode(txt) == Tree("string", <<Tok("STRING", txt)>>)
IdentNode(name) == Tree("ident_value", <<Tok("IDENT", name)>>)
RpnNode(toks) == Tree("expr_const", <<Tree("rpn_list", toks)>>)
PairNode(key, val) == Tree("pair", <<Tok("IDENT", key), val>>)
DictNode(pairs) == Tree("dict", <<Tree("pair_list", pairs)>>)
ListNode(vals) == Tree("list", <<Tree("value_list", vals)>>)
GlobalDeclNode(name, val) == Tree("global_decl", <<Tok("IDENT", name), val>>)

(* str(tok) of a Token: its text *)
str(tok) == tok.c

-----------------------------------------------------------------------------
(* ConfigTransformer: values *)

(* num: int(n) *)
num(n) == PyInt(int(str(n)))

(* string: s[1:-1] *)
string(s) == PyStr(SubSeq(str(s), 2, Len(str(s)) - 1))

(* ident_value *)
ident_value(name, g) ==
    LET key == str(name)
    IN  IF DictHas(g, key) THEN DictGet(g, key)
        ELSE Raise("ValueError", "Unknown identifier", key)

-----------------------------------------------------------------------------
(* ConfigTransformer: RPN *)

OperatorTexts == {<<"+">>, <<"-">>, <<"*">>, <<"/">>, <<"m", "o", "d">>}

IndexError == Raise("IndexError", "pop from empty list", <<>>)

(* the if/elif chain on the operator, after b and a are popped *)
ApplyOperator(tok_str, a, b) ==
    IF tok_str = <<"+">> THEN PyAdd(a, b)
    ELSE IF tok_str = <<"-">> THEN PySub(a, b)
    ELSE IF tok_str = <<"*">> THEN PyMul(a, b)
    ELSE IF tok_str = <<"/">> THEN PyFloorDiv(a, b)
    ELSE PyMod(a, b)

(* one iteration of the for loop of expr_const on the stack stk: the new
   stack, tagged "stack", or the exception raised.  A Token is a str, so
   isinstance(tok, int) is false for every child of rpn_list *)
RpnToken(stk, tok, g) ==
    LET tok_str == str(tok)
    IN  IF tok.t = "int" THEN [t |-> "stack", v |-> Append(stk, tok)]
        ELSE IF DictHas(g, tok_str)
        THEN [t |-> "stack", v |-> Append(stk, DictGet(g, tok_str))]
        ELSE IF isdigit(tok_str) \/ (startswith_minus(tok_str) /\ isdigit(Tail(tok_str)))
        THEN [t |-> "stack", v |-> Append(stk, PyInt(int(tok_str)))]
        ELSE IF tok_str \in OperatorTexts
        THEN IF Len(stk) < 2 THEN IndexError
             ELSE LET b == stk[Len(stk)]
                      a == stk[Len(stk) - 1]
                      r == ApplyOperator(tok_str, a, b)
                  IN  IF IsRaise(r) THEN r
                      ELSE [t |-> "stack", v |-> Append(SubSeq(stk, 1, Len(stk) - 2), r)]
        ELSE Raise("ValueError", "Unknown token in RPN", tok_str)

(* the check after the loop and the return *)
RpnReturnValue(stk) ==
    IF Len(stk) # 1 THEN Raise("ValueError", "Invalid RPN expression", <<>>)
    ELSE stk[1]

RECURSIVE RpnLoop(_, _, _, _)
RpnLoop(stk, toks, i, g) ==
    IF i > Len(toks) THEN RpnReturnValue(stk)
    ELSE LET r == RpnToken(stk, toks[i], g)
         IN  IF IsRaise(r) THEN r ELSE RpnLoop(r.v, toks, i + 1, g)

(* expr_const(rpn_tree) with self.globals = g *)
expr_const(rpn_tree, g) == RpnLoop(<<>>, rpn_tree.c, 1, g)

-----------------------------------------------------------------------------
(* ConfigTransformer: structures *)

(* pair *)
pair(key, value) == PyTuple(<<str(key), value>>)

RECURSIVE PairListLoop(_, _, _)
PairListLoop(d, pairs, i) ==
    IF i > Len(pairs) THEN d
    ELSE LET p == pairs[i]
         IN  IF p.t = "tuple" /\ Len(p.v) = 2
             THEN PairListLoop(DictSet(d, p.v[1], p.v[2]), pairs, i + 1)
             ELSE PairListLoop(d, pairs, i + 1)

\* pair_list: the dict built from the pairs
pair_list(pairs) == PyDict(PairListLoop(<<>>, pairs, 1))

\* value_list: list(vals)
value_list(vals) == PyList(vals)

RECURSIVE DictUpdateLoop(_, _, _)
DictUpdateLoop(d, xs, i) ==
    IF i > Len(xs) THEN d
    ELSE IF xs[i].t = "dict"
    THEN DictUpdateLoop(PairListLoop(d, [j \in 1..Len(xs[i].v) |-> PyTuple(xs[i].v[j])], 1), xs, i + 1)
    ELSE DictUpdateLoop(d, xs, i + 1)

(* dict(items) *)
dict(its) ==
    IF its.t = "dict" THEN its
    ELSE IF its.t = "list" THEN PyDict(DictUpdateLoop(<<>>, its.v, 1))
    ELSE PyDict(<<>>)

(* list(items) *)
list(its) == IF its.t = "list" THEN its ELSE PyList(<<its>>)

-----------------------------------------------------------------------------
(* lark.Transformer: bottom-up, children left to right, the callback of a
   rule applied to the results of its children; an exception raised by a
   callback ends the transformation *)

Callback(k, args, g) ==
    CASE k = "num" -> num(args[1])
      [] k = "string" -> string(args[1])
      [] k = "ident_value" -> ident_value(args[1], g)
      [] k = "expr_const" -> expr_const(args[1], g)
      [] k = "rpn_list" -> Tree("rpn_list", args)
      [] k = "pair" -> pair(args[1], args[2])
      [] k = "pair_list" -> pair_list(args)
      [] k = "value_list" -> value_list(args)
      [] k = "dict" -> dict(args[1])
      [] k = "list" -> list(args[1])

RECURSIVE Transform(_, _), TransformChildren(_, _, _, _)
TransformChildren(cs, i, acc, g) ==
    IF i > Len(cs) THEN [t |-> "args", v |-> acc]
    ELSE IF IsToken(cs[i]) THEN TransformChildren(cs, i + 1, Append(acc, cs[i]), g)
    ELSE LET r == Transform(cs[i], g)
         IN  IF IsRaise(r) THEN r
             ELSE TransformChildren(cs, i + 1, Append(acc, r), g)

Transform(node, g) ==
    LET args == TransformChildren(node.c, 1, <<>>, g)
    IN  IF IsRaise(args) THEN args ELSE Callback(node.k, args.v, g)

-----------------------------------------------------------------------------
(* ConfigTransformer: globals and root *)

GlobalTag == <<"g", "l", "o", "b", "a", "l">>

(* global_decl binding by reference: the names bound to the value that name
   had are rebound with it; not the behaviour of global_decl *)
global_decl_globals_by_reference(g, name, value) ==
    IF DictHas(g, str(name))
    THEN [i \in 1..Len(g) |->
            IF g[i][2] = DictGet(g, str(name)) THEN <<g[i][1], value>> ELSE g[i]]
    ELSE DictSet(g, str(name), value)

(* global_decl: self.globals after the assignment *)
global_decl_globals(g, name, value) == DictSet(g, str(name), value)

(* global_decl: the tuple returned *)
global_decl(name, value) == PyTuple(<<GlobalTag, str(name), value>>)

IsGlobalTuple(i) == i.t = "tuple" /\ i.v[1] = GlobalTag

(* config: the items that are not the tuple of a global *)
config(its) == PyList(SelectSeq(its, LAMBDA i : ~IsGlobalTuple(i)))

-----------------------------------------------------------------------------
(* GRAMMAR: a source text is its sequence of statements; parser.parse
   accepts  config: (global_decl)* expr*  with  expr: dict | list, and a
   global_decl is  "global" IDENT "=" value *)

IsGlobalDeclStmt(s) ==
    s.k = "global_decl" /\ Len(s.c) = 2 /\ IsToken(s.c[1]) /\ s.c[1].k = "IDENT"

IsExprStmt(s) == s.k = "dict" \/ s.k = "list"

config_accepts(txt) ==
    \E n \in 0..Len(txt) :
        /\ \A i \in 1..n : IsGlobalDeclStmt(txt[i])
        /\ \A i \in (n + 1)..Len(txt) : IsExprStmt(txt[i])

-----------------------------------------------------------------------------
(* Inputs *)

nA == <<"A">>
nB == <<"B">>
nMod == <<"m", "o", "d">>
kK1 == <<"K", "1">>
kK2 == <<"K", "2">>
kK3 == <<"K", "3">>
sAb == <<"'", "a", "b", "'">>

SeqsUpTo(S, n) == UNION {[1..m -> S] : m \in 0..n}

(* the right-hand sides of the global declarations of a source text *)
DeclValues ==
    {NumNode(<<"5">>), NumNode(<<"2">>), StringNode(sAb), IdentNode(nA),
     RpnNode(<<Tok("IDENT", nA)>>)}

DeclStmts == {GlobalDeclNode(n, v) : n \in {nA, nB}, v \in DeclValues}

(* global = 10 *)
MalformedDecl == Tree("global_decl", <<NumNode(<<"1", "0">>)>>)

RpnA2Mul == RpnNode(<<Tok("IDENT", nA), Tok("NUMBER", <<"2">>), Tok("OP", <<"*">>)>>)

ExprStmts ==
    {ListNode(<<IdentNode(nA)>>),
     ListNode(<<RpnA2Mul>>),
     ListNode(<<RpnNode(<<Tok("IDENT", nB)>>), IdentNode(nB)>>),
     DictNode(<<PairNode(kK1, IdentNode(nA))>>),
     ListNode(<<RpnNode(<<Tok("NUMBER", <<"1">>), Tok("NUMBER", <<"0">>), Tok("OP", <<"/">>)>>)>>),
     ListNode(<<RpnNode(<<Tok("NUMBER", <<"1">>), Tok("OP", <<"+">>)>>)>>)}

(* values written as statements of their own *)
ValueStmts == {RpnA2Mul, RpnNode(<<Tok("IDENT", nA)>>), NumNode(<<"5">>)}

Stmts == DeclStmts \cup ExprStmts \cup ValueStmts \cup {MalformedDecl}

Texts == SeqsUpTo(Stmts, MaxStmts)

(* the tokens of an rpn_list *)
NumberTexts == {<<"-", "7">>, <<"0">>, <<"2">>, <<"3">>}

RpnTokens ==
    {Tok("NUMBER", n) : n \in NumberTexts}
    \cup {Tok("OP", o) : o \in {<<"+">>, <<"-">>, <<"*">>, <<"/">>}}
    \cup {Tok("FUNC", nMod), Tok("IDENT", nA)}

TokenSeqs == SeqsUpTo(RpnTokens, MaxTokens) \ {<<>>}

(* the global declarations ahead of the RPN expression *)
RpnDecls ==
    {GlobalDeclNode(nA, NumNode(<<"5">>)), GlobalDeclNode(nA, StringNode(sAb)),
     GlobalDeclNode(nMod, NumNode(<<"5">>))}

(* dict and list literals *)
LitValues == {NumNode(<<"1">>), NumNode(<<"2">>)}
LitPairs == {PairNode(k, v) : k \in {kK1, kK2, kK3}, v \in LitValues}
ListItems == {NumNode(<<"1">>), NumNode(<<"2">>), NumNode(<<"3">>)}

Literals ==
    {DictNode(ps) : ps \in SeqsUpTo(LitPairs, MaxPairs)}
    \cup {ListNode(vs) : vs \in SeqsUpTo(ListItems, MaxPairs)}

-----------------------------------------------------------------------------
(* assemble(input_path, output_path) *)

Idle ==
    /\ text = <<>> /\ tree = <<>> /\ items = <<>> /\ statements = PyNone
    /\ outfile = PyNone /\ exitcode = PyNone /\ caught = PyNone

RpnIdle == tokens = <<>> /\ stack = <<>> /\ ti = 0 /\ rpn_result = PyNone

LitIdle == lit = PyNone /\ lit_result = PyNone

Init ==
    /\ text \in Texts
    /\ pc = "parse"
    /\ tree = <<>> /\ idx = 0 /\ globals = <<>> /\ items = <<>>
    /\ statements = PyNone /\ outfile = PyNone /\ exitcode = PyNone
    /\ caught = PyNone
    /\ RpnIdle /\ LitIdle

GlobalsKey == <<"g", "l", "o", "b", "a", "l", "s">>
StatementsKey == <<"s", "t", "a", "t", "e", "m", "e", "n", "t", "s">>

(* tree = parser.parse(text) returns *)
Parse ==
    /\ pc = "parse"
    /\ config_accepts(text)
    /\ tree' = text
    /\ pc' = "transform"
    /\ UNCHANGED <<text, idx, globals, items, statements, outfile, exitcode, caught>>
    /\ UNCHANGED <<rpnVars, litVars>>

(* parser.parse(text) raises UnexpectedInput: except clause, sys.exit(1) *)
SyntaxErrorExit ==
    /\ pc = "parse"
    /\ ~config_accepts(text)
    /\ caught' = Raise("UnexpectedInput", "Syntax error", <<>>)
    /\ exitcode' = PyInt(1)
    /\ pc' = "exit"
    /\ UNCHANGED <<text, tree, idx, globals, items, statements, outfile>>
    /\ UNCHANGED <<rpnVars, litVars>>

(* the except clause writing what was transformed before the exception: not
   the behaviour of assemble *)
ErrorExitDump(e) ==
    /\ caught' = e
    /\ exitcode' = PyInt(1)
    /\ pc' = "exit"
    /\ outfile' = PyDict(<<<<GlobalsKey, PyDict(globals)>>, <<StatementsKey, config(items)>>>>)
    /\ UNCHANGED <<text, tree, idx, globals, items, statements>>

(* an exception raised inside trans.transform: except Exception, sys.exit(1) *)
ErrorExit(e) ==
    /\ caught' = e
    /\ exitcode' = PyInt(1)
    /\ pc' = "exit"
    /\ UNCHANGED <<text, tree, idx, globals, items, statements, outfile>>

(* trans.transform(tree): the next child of config is a global_decl *)
TransformGlobalDecl ==
    /\ pc = "transform"
    /\ idx < Len(tree)
    /\ tree[idx + 1].k = "global_decl"
    /\ LET args == TransformChildren(tree[idx + 1].c, 1, <<>>, globals)
       IN  IF IsRaise(args) THEN ErrorExit(args)
           ELSE /\ globals' = global_decl_globals(globals, args.v[1], args.v[2])
                /\ items' = Append(items, global_decl(args.v[1], args.v[2]))
                /\ idx' = idx + 1
                /\ UNCHANGED <<text, pc, tree, statements, outfile, exitcode, caught>>
    /\ UNCHANGED <<rpnVars, litVars>>

(* trans.transform(tree): the next child of config is a dict or a list *)
TransformExpr ==
    /\ pc = "transform"
    /\ idx < Len(tree)
    /\ tree[idx + 1].k # "global_decl"
    /\ LET r == Transform(tree[idx + 1], globals)
       IN  IF IsRaise(r) THEN ErrorExit(r)
           ELSE /\ items' = Append(items, r)
                /\ idx' = idx + 1
                /\ UNCHANGED <<text, pc, tree, globals, statements, outfile, exitcode, caught>>
    /\ UNCHANGED <<rpnVars, litVars>>

(* trans.transform(tree): the callback of config; statements is bound *)
TransformConfig ==
    /\ pc = "transform"
    /\ idx = Len(tree)
    /\ statements' = config(items)
    /\ pc' = "dump"
    /\ UNCHANGED <<text, tree, idx, globals, items, outfile, exitcode, caught>>
    /\ UNCHANGED <<rpnVars, litVars>>

(* yaml.safe_dump({"globals": ..., "statements": ...}) to output_path *)
Dump ==
    /\ pc = "dump"
    /\ outfile' = PyDict(<<<<GlobalsKey, PyDict(globals)>>, <<StatementsKey, statements>>>>)
    /\ exitcode' = PyInt(0)
    /\ pc' = "done"
    /\ UNCHANGED <<text, tree, idx, globals, items, statements, caught>>
    /\ UNCHANGED <<rpnVars, litVars>>

Next ==
    \/ Parse
    \/ SyntaxErrorExit
    \/ TransformGlobalDecl
    \/ TransformExpr
    \/ TransformConfig
    \/ Dump

Spec == Init /\ [][Next]_vars

-----------------------------------------------------------------------------
(* expr_const, one token per step, after global declarations *)

RpnInit ==
    /\ tokens \in TokenSeqs
    /\ pc = "decl"
    /\ idx = 0 /\ globals = <<>>
    /\ stack = <<>> /\ ti = 0 /\ rpn_result = PyNone
    /\ Idle /\ LitIdle

(* a global_decl ahead of the expression is transformed *)
RpnDeclare ==
    /\ pc = "decl"
    /\ idx < MaxDecls
    /\ \E d \in RpnDecls :
         LET args == TransformChildren(d.c, 1, <<>>, globals)
         IN  globals' = global_decl_globals(globals, args.v[1], args.v[2])
    /\ idx' = idx + 1
    /\ UNCHANGED <<pc, asmVars, rpnVars, litVars>>

(* expr_const is called: stack = [] *)
RpnEnter ==
    /\ pc = "decl"
    /\ stack' = <<>>
    /\ ti' = 0
    /\ pc' = "loop"
    /\ UNCHANGED <<idx, globals, asmVars, tokens, rpn_result, litVars>>

(* one iteration of the for loop *)
RpnLoopStep ==
    /\ pc = "loop"
    /\ ti < Len(tokens)
    /\ LET r == RpnToken(stack, tokens[ti + 1], globals)
       IN  IF IsRaise(r)
           THEN /\ rpn_result' = r
                /\ pc' = "returned"
                /\ UNCHANGED <<stack, ti>>
           ELSE /\ stack' = r.v
                /\ ti' = ti + 1
                /\ UNCHANGED <<pc, rpn_result>>
    /\ UNCHANGED <<idx, globals, asmVars, tokens, litVars>>

(* the loop is over: the length check and the return *)
RpnFinish ==
    /\ pc = "loop"
    /\ ti = Len(tokens)
    /\ rpn_result' = RpnReturnValue(stack)
    /\ pc' = "returned"
    /\ UNCHANGED <<idx, globals, asmVars, tokens, stack, ti, litVars>>

RpnNext == RpnDeclare \/ RpnEnter \/ RpnLoopStep \/ RpnFinish

SpecRpn == RpnInit /\ [][RpnNext]_vars

-----------------------------------------------------------------------------
(* dict and list literals *)

LitInit ==
    /\ lit \in Literals
    /\ lit_result = PyNone
    /\ pc = "literal"
    /\ idx = 0 /\ globals = <<>>
    /\ Idle /\ RpnIdle

(* a dict literal is transformed: pair, pair_list, dict *)
TransformDict ==
    /\ pc = "literal"
    /\ lit.k = "dict"
    /\ lit_result' = Transform(lit, globals)
    /\ pc' = "transformed"
    /\ UNCHANGED <<idx, globals, asmVars, rpnVars, lit>>

(* a list literal is transformed: value_list, list *)
TransformList ==
    /\ pc = "literal"
    /\ lit.k = "list"
    /\ lit_result' = Transform(lit, globals)
    /\ pc' = "transformed"
    /\ UNCHANGED <<idx, globals, asmVars, rpnVars, lit>>

LitNext == TransformDict \/ TransformList

SpecLit == LitInit /\ [][LitNext]_vars

-----------------------------------------------------------------------------
(* What the properties expect, written without the definitions above *)

Terminated == pc = "done" \/ pc = "exit"

(* the integer a NUMBER text denotes *)
NumberLits ==
    {<<<<"-", "7">>, 0 - 7>>, <<<<"0">>, 0>>, <<<<"1">>, 1>>, <<<<"2">>, 2>>,
     <<<<"3">>, 3>>, <<<<"5">>, 5>>}
Written(txt) == (CHOOSE p \in NumberLits : p[1] = txt)[2]

(* the value a literal denotes: an Integer or a Text *)
Denoted(node) ==
    IF node.k = "num" THEN PyInt(Written(node.c[1].c))
    ELSE PyStr(<<"a", "b">>)

Abs(n) == IF n < 0 THEN 0 - n ELSE n

(* floor(a / b), b # 0: the integer q with q*b <= a < (q+1)*b when b > 0 and
   q*b >= a > (q+1)*b when b < 0 *)
FloorQuotient(a, b) ==
    CHOOSE q \in (0 - Abs(a) - 1)..(Abs(a) + 1) :
        \/ b > 0 /\ q * b <= a /\ a < (q + 1) * b
        \/ b < 0 /\ q * b >= a /\ a > (q + 1) * b

ExpectedBinary(a, b, op) ==
    IF op = <<"+">> THEN PyInt(a + b)
    ELSE IF op = <<"-">> THEN PyInt(a - b)
    ELSE IF op = <<"*">> THEN PyInt(a * b)
    ELSE IF b = 0 THEN ZeroDivisionError
    ELSE IF op = <<"/">> THEN PyInt(FloorQuotient(a, b))
    ELSE PyInt(a - b * FloorQuotient(a, b))

IsOperatorToken(tok) == tok.k = "OP" \/ tok.k = "FUNC"

IsBinaryExpression(toks) ==
    /\ Len(toks) = 3
    /\ toks[1].k = "NUMBER" /\ toks[2].k = "NUMBER"
    /\ IsOperatorToken(toks[3])

-----------------------------------------------------------------------------
(* C1: for all integers a and b the RPN evaluator reduces the tokens
   (a, b, op) to a+b, a-b, a*b, floor(a/b) or a mod b, b being the operand
   pushed last, and to a division-by-zero error for '/' and 'mod' when b = 0. *)
C1_RpnCorrectness ==
    (pc = "returned" /\ IsBinaryExpression(tokens))
        => rpn_result = ExpectedBinary(Written(tokens[1].c), Written(tokens[2].c),
                                       tokens[3].c)

(* what holds of C1: the same, when no global is named mod *)
C1_WithoutGlobalMod ==
    (pc = "returned" /\ IsBinaryExpression(tokens) /\ ~DictHas(globals, nMod))
        => rpn_result = ExpectedBinary(Written(tokens[1].c), Written(tokens[2].c),
                                       tokens[3].c)

(* C2: an identifier bound to a value that is no Integer is never pushed as
   an operand, and an RPN expression that evaluates yields an Integer. *)
C2_RpnYieldsInteger ==
    /\ \A i \in 1..Len(stack) : stack[i].t = "int"
    /\ (pc = "returned" /\ ~IsRaise(rpn_result)) => rpn_result.t = "int"

IsStackUnderflow(r) == IsRaise(r) /\ r.v.exc = "IndexError"
IsInvalidExpression(r) ==
    IsRaise(r) /\ r.v.exc = "ValueError" /\ r.v.msg = "Invalid RPN expression"

(* C3: an operator token reached with fewer than two operands on the stack
   ends the evaluation with a stack-underflow error; tokens all consumed
   with a stack not of exactly one value end it with an invalid-expression
   error; the two errors differ and neither case yields a value. *)
C3_StackBalance ==
    [][/\ (pc = "loop" /\ ti < Len(tokens) /\ IsOperatorToken(tokens[ti + 1])
              /\ Len(stack) < 2)
          => (pc' = "returned" /\ IsStackUnderflow(rpn_result')
                 /\ ~IsInvalidExpression(rpn_result'))
       /\ (pc = "loop" /\ ti = Len(tokens) /\ Len(stack) # 1)
          => (pc' = "returned" /\ IsInvalidExpression(rpn_result')
                 /\ ~IsStackUnderflow(rpn_result'))]_vars

(* what holds of C3: the same, when no global is named mod *)
C3_WithoutGlobalMod ==
    [][/\ (pc = "loop" /\ ti < Len(tokens) /\ IsOperatorToken(tokens[ti + 1])
              /\ Len(stack) < 2 /\ ~DictHas(globals, nMod))
          => (pc' = "returned" /\ IsStackUnderflow(rpn_result')
                 /\ ~IsInvalidExpression(rpn_result'))
       /\ (pc = "loop" /\ ti = Len(tokens) /\ Len(stack) # 1)
          => (pc' = "returned" /\ IsInvalidExpression(rpn_result')
                 /\ ~IsStackUnderflow(rpn_result'))]_vars

IsUnknownIdentifier(r, name) ==
    /\ IsRaise(r) /\ r.v.exc = "ValueError" /\ r.v.arg = name
    /\ r.v.msg \in {"Unknown identifier", "Unknown token in RPN"}

IsSyntaxError(r) == IsRaise(r) /\ r.v.exc = "UnexpectedInput"

(* C4: global N = v followed by the RPN statement of the tokens N, k and
   the operator of multiplication gives the output [v times k]; a use of a name, as a value or as an RPN token, ahead of the first
   declaration of the name fails with an unknown-identifier error. *)
C4_ReferenceResolution ==
    (Terminated /\ Len(text) = 2) =>
    /\ \A v \in {<<"5">>, <<"2">>} :
         (Terminated /\ text = <<GlobalDeclNode(nA, NumNode(v)), RpnA2Mul>>)
            => (pc = "done" /\ statements = PyList(<<PyInt(Written(v) * 2)>>))
    /\ \A use \in {IdentNode(nA), RpnNode(<<Tok("IDENT", nA)>>)}, v \in {<<"5">>, <<"2">>} :
         (Terminated /\ text = <<GlobalDeclNode(nB, use), GlobalDeclNode(nA, NumNode(v))>>)
            => (pc = "exit" /\ IsUnknownIdentifier(caught, nA))

(* C5: a text of global declarations and values (integer, string,
   identifier, dict, list, RPN expression), in any interleaving, is accepted,
   and the output holds one entry for each statement that is no declaration
   and none for a declaration. *)
C5_ProgramOutput ==
    (Terminated /\ \A i \in 1..Len(text) : text[i] # MalformedDecl)
        => /\ ~IsSyntaxError(caught)
           /\ pc = "done" =>
                /\ statements.t = "list"
                /\ Len(statements.v)
                     = Cardinality({i \in 1..Len(text) : text[i].k # "global_decl"})

LiteralValues == {NumNode(<<"5">>), NumNode(<<"2">>), StringNode(sAb)}

(* C6: after global N = v1 and global N = v2 no error is raised, the final
   Environment holds one binding of N, to v2, and a later use of N, the RPN
   statement .(N). included, evaluates to v2. *)
C6_LastDeclarationWins ==
    (Terminated /\ Len(text) = 3) =>
    \A v1 \in LiteralValues, v2 \in LiteralValues :
        (Terminated /\ text = <<GlobalDeclNode(nA, v1), GlobalDeclNode(nA, v2),
                                RpnNode(<<Tok("IDENT", nA)>>)>>)
            => /\ pc = "done"
               /\ globals = <<<<nA, Denoted(v2)>>>>
               /\ statements = PyList(<<Denoted(v2)>>)

(* what holds of C6: the same with the uses of N inside a list, the one
   place where the grammar takes a value after the declarations *)
C6_UsesInsideList ==
    (Terminated /\ Len(text) = 3) =>
    \A v1 \in LiteralValues, v2 \in LiteralValues :
        (Terminated /\ text = <<GlobalDeclNode(nA, v1), GlobalDeclNode(nA, v2),
                                ListNode(<<IdentNode(nA)>>)>>)
            => /\ pc = "done"
               /\ globals = <<<<nA, Denoted(v2)>>>>
               /\ statements = PyList(<<PyList(<<Denoted(v2)>>)>>)

-----------------------------------------------------------------------------
(* the literal as written: lit.c[1] is the pair_list or the value_list *)
WrittenItems == lit.c[1].c
WrittenKey(i) == WrittenItems[i].c[1].c
WrittenValue(i) == Denoted(WrittenItems[i].c[2])

(* the positions at which a key is written for the first time, in order *)
FirstWritten == {i \in 1..Len(WrittenItems) : \A j \in 1..(i - 1) : WrittenKey(j) # WrittenKey(i)}

(* the position at which the key written at i is written for the last time *)
LastWritten(i) ==
    CHOOSE j \in 1..Len(WrittenItems) :
        /\ WrittenKey(j) = WrittenKey(i)
        /\ \A m \in (j + 1)..Len(WrittenItems) : WrittenKey(m) # WrittenKey(i)

(* C7: a list literal evaluates to a list of the length and in the order
   written; a dict literal evaluates to a mapping with one entry for each key
   written, the keys in the order of their first occurrence, each with the
   value of its last occurrence. *)
C7_StructuralOrder ==
    pc = "transformed" =>
        IF lit.k = "list"
        THEN /\ lit_result.t = "list"
             /\ Len(lit_result.v) = Len(WrittenItems)
             /\ \A i \in 1..Len(WrittenItems) : lit_result.v[i] = Denoted(WrittenItems[i])
        ELSE /\ lit_result.t = "dict"
             /\ Len(lit_result.v) = Cardinality(FirstWritten)
             /\ \A i \in FirstWritten :
                  LET at == Cardinality({j \in FirstWritten : j <= i})
                  IN  lit_result.v[at] = <<WrittenKey(i), WrittenValue(LastWritten(i))>>

(* a dict literal of three pairs, the first key written again with another
   value after a second key, has been evaluated *)
C7_Witness ==
    /\ pc = "transformed"
    /\ lit.k = "dict"
    /\ Len(WrittenItems) = 3
    /\ WrittenKey(1) = WrittenKey(3) /\ WrittenKey(1) # WrittenKey(2)
    /\ WrittenValue(1) # WrittenValue(3)
    /\ Len(lit_result.v) = 2

(* statements no Environment makes succeed: global = 10, a division by zero,
   an operator without operands *)
FailingStmts ==
    {MalformedDecl,
     ListNode(<<RpnNode(<<Tok("NUMBER", <<"1">>), Tok("NUMBER", <<"0">>), Tok("OP", <<"/">>)>>)>>),
     ListNode(<<RpnNode(<<Tok("NUMBER", <<"1">>), Tok("OP", <<"+">>)>>)>>)}

(* statements that use A *)
UsesOfA ==
    {GlobalDeclNode(nB, IdentNode(nA)), GlobalDeclNode(nB, RpnNode(<<Tok("IDENT", nA)>>))}

(* C8: a syntax error or an error raised during evaluation ends the run in
   an error outcome with nothing written to the output, whatever was
   processed before it, and nothing is retried. *)
C8_ErrorAbortsRun ==
    /\ [](/\ IsRaise(caught) => (pc = "exit" /\ exitcode = PyInt(1) /\ outfile = PyNone)
          /\ pc = "exit" => IsRaise(caught)
          /\ outfile # PyNone => (pc = "done" /\ exitcode = PyInt(0) /\ Len(items) = Len(text))
          /\ (Terminated /\ \E i \in 1..Len(text) : text[i] \in FailingStmts) => pc = "exit"
          /\ (Terminated /\ Len(text) > 0 /\ text[1] \in UsesOfA) => pc = "exit")
    /\ [][pc = "exit" => pc' = "exit"]_vars
    /\ [][(pc = "transform" /\ pc' = "exit") => (outfile' = PyNone /\ globals' = globals)]_vars

(* a division by zero after a declaration and a list were transformed *)
C8_Witness ==
    /\ pc = "exit"
    /\ idx = 2
    /\ Len(globals) = 1
    /\ caught = ZeroDivisionError

(* C9: an operator token is handled by its kind whatever the Environment
   binds, a global named mod included: with two operands on the stack, the
   step that consumes the token pops both and pushes the result of the
   operator, or ends the evaluation with the error of the operation. *)
C9_DispatchByKind ==
    [][(pc = "loop" /\ ti < Len(tokens) /\ IsOperatorToken(tokens[ti + 1])
            /\ Len(stack) >= 2)
          => LET r == ApplyOperator(tokens[ti + 1].c, stack[Len(stack) - 1],
                                    stack[Len(stack)])
             IN  IF IsRaise(r)
                 THEN pc' = "returned" /\ rpn_result' = r
                 ELSE /\ pc' = "loop" /\ ti' = ti + 1
                      /\ stack' = Append(SubSeq(stack, 1, Len(stack) - 2), r)]_vars

(* what holds of C9: the same, when no global is named mod *)
C9_WithoutGlobalMod ==
    [][(pc = "loop" /\ ti < Len(tokens) /\ IsOperatorToken(tokens[ti + 1])
            /\ Len(stack) >= 2 /\ ~DictHas(globals, nMod))
          => LET r == ApplyOperator(tokens[ti + 1].c, stack[Len(stack) - 1],
                                    stack[Len(stack)])
             IN  IF IsRaise(r)
                 THEN pc' = "returned" /\ rpn_result' = r
                 ELSE /\ pc' = "loop" /\ ti' = ti + 1
                      /\ stack' = Append(SubSeq(stack, 1, Len(stack) - 2), r)]_vars

(* C10: after global A = v1, global B = A (or B bound to the RPN expression
   of the token A) and global A = v2, the final Environment binds B to v1
   and A to v2. *)
C10_DeclarationSnapshot ==
    (Terminated /\ Len(text) = 3) =>
    \A v1 \in LiteralValues, v2 \in LiteralValues :
        \A use \in {IdentNode(nA), RpnNode(<<Tok("IDENT", nA)>>)} :
            (Terminated /\ text = <<GlobalDeclNode(nA, v1), GlobalDeclNode(nB, use),
                                    GlobalDeclNode(nA, v2)>>)
                => /\ pc = "done"
                   /\ outfile = PyDict(<<<<GlobalsKey, PyDict(<<<<nA, Denoted(v2)>>,
                                                                <<nB, Denoted(v1)>>>>)>>,
                                         <<StatementsKey, PyList(<<>>)>>>>)

(* global A = 5, global B = A, global A = 'ab' has been written out *)
C10_Witness ==
    /\ pc = "done"
    /\ text = <<GlobalDeclNode(nA, NumNode(<<"5">>)), GlobalDeclNode(nB, IdentNode(nA)),
                GlobalDeclNode(nA, StringNode(sAb))>>
    /\ outfile.t = "dict"

====
